---- MODULE Spec2Model ----
(***************************************************************************)
(* A model of the scaffolder library (scaffolder.go): Scaffold walks a     *)
(* template tree, renders names, contents and symlink targets against a    *)
(* context, materializes directories and files in the destination and      *)
(* creates the symlinks it deferred once the walk is over.                  *)
(*                                                                         *)
(* Text (names, paths, templates, contents) is a sequence of tokens.  A    *)
(* token is a one-character string, or the source text of one template     *)
(* action ("{{.Name}}", ...), which the Go template engine treats as one   *)
(* unit.  Paths are text with "/" separators, as in the program.           *)
(***************************************************************************)
EXTENDS Naturals, Integers, Sequences, FiniteSets, TLC

(***************************************************************************)
(* Bounds of the model.                                                    *)
(***************************************************************************)
\* Number of root entries of a template tree.
MaxEntries == 2
\* Number of registered extensions.
MaxPlugins == 2
\* Depth of the applySymlinks recursion at which the Go runtime is taken to
\* have exhausted its stack.
MaxApplyDepth == 4

(***************************************************************************)
(* Text helpers (package strings).                                         *)
(***************************************************************************)
NUL == "\\000"

\* strings.HasSuffix
HasSuffix(s, suf) ==
    /\ Len(s) >= Len(suf)
    /\ SubSeq(s, Len(s) - Len(suf) + 1, Len(s)) = suf

\* strings.TrimSuffix
TrimSuffix(s, suf) ==
    IF HasSuffix(s, suf) THEN SubSeq(s, 1, Len(s) - Len(suf)) ELSE s

\* Byte order of the characters the model uses (os.ReadDir sorts by name).
\* The template actions start with "{" and come last, in the order of their
\* own text.
Alphabet == << NUL, ".", "/", "a", "b", "c", "d", "e", "f", "g", "h", "i", "j",
               "k", "l", "m", "n", "o", "p", "q", "r", "s", "t", "u", "v",
               "w", "x", "y", "z", "{{.Name}}", "{{.Opt}}", "{{.Up}}",
               "{{bad",
               "{{dir x .A}}",
               "{{dir x .B}}", "{{dir x.tmpl .A}}", "{{dir y .B}}" >>

Rank(tok) ==
    IF \E i \in DOMAIN Alphabet : Alphabet[i] = tok
    THEN CHOOSE i \in DOMAIN Alphabet : Alphabet[i] = tok
    ELSE Len(Alphabet)

RECURSIVE StrLess(_, _)
StrLess(a, b) ==
    IF b = << >> THEN FALSE
    ELSE IF a = << >> THEN TRUE
    ELSE IF Rank(Head(a)) # Rank(Head(b)) THEN Rank(Head(a)) < Rank(Head(b))
    ELSE StrLess(Tail(a), Tail(b))

\* The elements of a set of names in increasing order.
Least(S) == CHOOSE x \in S : \A y \in S \ {x} : StrLess(x, y)

RECURSIVE SortNames(_)
SortNames(S) ==
    IF S = {} THEN << >>
    ELSE << Least(S) >> \o SortNames(S \ { Least(S) })

(***************************************************************************)
(* Path helpers (package path/filepath, Unix).                             *)
(***************************************************************************)
HasSlash(p) == \E i \in DOMAIN p : p[i] = "/"

FirstSlash(p) ==
    CHOOSE i \in DOMAIN p : p[i] = "/" /\ \A j \in 1..(i - 1) : p[j] # "/"

LastSlash(p) ==
    CHOOSE i \in DOMAIN p : p[i] = "/" /\ \A j \in (i + 1)..Len(p) : p[j] # "/"

\* The "/"-separated elements of a path, empty elements included.
RECURSIVE SplitPath(_)
SplitPath(p) ==
    IF ~HasSlash(p) THEN << p >>
    ELSE << SubSeq(p, 1, FirstSlash(p) - 1) >>
         \o SplitPath(SubSeq(p, FirstSlash(p) + 1, Len(p)))

RECURSIVE JoinElems(_)
JoinElems(es) ==
    IF es = << >> THEN << >>
    ELSE IF Len(es) = 1 THEN es[1]
    ELSE es[1] \o << "/" >> \o JoinElems(Tail(es))

filepath_IsAbs(p) == p # << >> /\ p[1] = "/"

\* The elements that survive Clean: "." and empty elements dropped, ".."
\* cancelling the element before it (and dropped at the root).
RECURSIVE CleanElems(_, _, _)
CleanElems(es, rooted, acc) ==
    IF es = << >> THEN acc
    ELSE IF Head(es) = << >> \/ Head(es) = << "." >>
    THEN CleanElems(Tail(es), rooted, acc)
    ELSE IF Head(es) = << ".", "." >>
    THEN IF acc # << >> /\ acc[Len(acc)] # << ".", "." >>
         THEN CleanElems(Tail(es), rooted, SubSeq(acc, 1, Len(acc) - 1))
         ELSE IF rooted THEN CleanElems(Tail(es), rooted, acc)
         ELSE CleanElems(Tail(es), rooted, Append(acc, Head(es)))
    ELSE CleanElems(Tail(es), rooted, Append(acc, Head(es)))

\* The clean elements of a path.
PathElems(p) == CleanElems(SplitPath(p), filepath_IsAbs(p), << >>)

\* The text of a clean path from its elements.
CleanText(rooted, body) ==
    IF rooted THEN << "/" >> \o body
    ELSE IF body = << >> THEN << "." >> ELSE body

\* filepath.Clean
filepath_Clean(p) == CleanText(filepath_IsAbs(p), JoinElems(PathElems(p)))

\* filepath.Join of two elements: empty elements are ignored, the result is
\* cleaned.
filepath_Join(a, b) ==
    IF a = << >> /\ b = << >> THEN << >>
    ELSE filepath_Clean(IF a = << >> THEN b
                        ELSE IF b = << >> THEN a
                        ELSE a \o << "/" >> \o b)

\* filepath.Dir: the path up to its last separator, cleaned.
filepath_Dir(p) ==
    filepath_Clean(IF HasSlash(p) THEN SubSeq(p, 1, LastSlash(p)) ELSE << >>)

LastElem(es, rooted) ==
    IF es = << >> THEN (IF rooted THEN << "/" >> ELSE << "." >>)
    ELSE es[Len(es)]

\* filepath.Base: the last element of the path.
filepath_Base(p) == LastElem(PathElems(p), filepath_IsAbs(p))

\* Length of the longest common prefix of two element sequences.
RECURSIVE CommonLen(_, _)
CommonLen(a, b) ==
    IF a = << >> \/ b = << >> \/ Head(a) # Head(b) THEN 0
    ELSE 1 + CommonLen(Tail(a), Tail(b))

\* The path from the clean elements be to the clean elements te, which
\* share their first n elements: up from what is left of be, then down.
RelElems(be, te, n) ==
    IF \E i \in (n + 1)..Len(be) : be[i] = << ".", "." >>
    THEN [ok |-> FALSE, path |-> << >>]
    ELSE IF Len(be) = n /\ Len(te) = n THEN [ok |-> TRUE, path |-> << "." >>]
    ELSE [ok |-> TRUE,
          path |-> JoinElems([i \in 1..(Len(be) - n) |-> << ".", "." >>]
                             \o SubSeq(te, n + 1, Len(te)))]

RelFrom(be, te) == RelElems(be, te, CommonLen(be, te))

\* filepath.Rel: [ok, path].  Fails when one path is absolute and the other
\* is not, or when base keeps a ".." the target cannot be reached through.
filepath_Rel(base, targ) ==
    IF filepath_IsAbs(base) # filepath_IsAbs(targ)
    THEN [ok |-> FALSE, path |-> << >>]
    ELSE RelFrom(PathElems(base), PathElems(targ))

(***************************************************************************)
(* Contexts.  The context is an opaque value to the program; templates     *)
(* read its fields.  "c0" is the ctx argument of Scaffold, "cx" the value   *)
(* an extension may put in Config.Context, "cA" and "cB" the values of the *)
(* fields .A and .B, which templates hand to dir as sub-contexts.  "raw"   *)
(* is the json.RawMessage the command-line tool passes: a slice of bytes,  *)
(* which has no fields.                                                    *)
(***************************************************************************)
Contexts == { "c0", "cx", "cA", "cB", "cxA", "cxB", "raw" }

\* The text {{.Name}} renders to.
CtxName(c) ==
    CASE c = "c0" -> << "n" >>
      [] c = "cx" -> << "r" >>
      [] c = "cA" -> << "p" >>
      [] OTHER    -> << "q" >>

\* The value of {{.A}} / {{.B}}.
\* The text {{.Opt}} renders to: the field is empty in the contexts
\* Scaffold is called with and set in the sub-contexts.
CtxOpt(c) == IF c \in { "c0", "cx" } THEN << >> ELSE << "u" >>

\* The text {{.Up}} renders to: a field whose value is a path that leaves
\* the directory it is joined to.
CtxUp(c) == << ".", ".", "/", "e" >>

CtxField(c, f) ==
    IF c = "cx" THEN (IF f = "A" THEN "cxA" ELSE "cxB")
    ELSE IF f = "A" THEN "cA" ELSE "cB"

(***************************************************************************)
(* Templates (text/template as evaluate uses it).                          *)
(***************************************************************************)
\* Actions that call the template function dir: name and context argument.
DirActions ==
    { "{{dir x .A}}", "{{dir y .B}}", "{{dir x .B}}", "{{dir x.tmpl .A}}" }

DirArgName(tok) ==
    CASE tok = "{{dir y .B}}" -> << "y" >>
      [] tok = "{{dir x.tmpl .A}}" -> << "x", ".", "t", "m", "p", "l" >>
      [] OTHER -> << "x" >>

DirArgCtx(tok, ctx) ==
    IF tok \in { "{{dir x .A}}", "{{dir x.tmpl .A}}" }
    THEN CtxField(ctx, "A") ELSE CtxField(ctx, "B")

\* Actions that read a field of the context.
FieldActions == { "{{.Name}}", "{{.Opt}}", "{{.Up}}" } \cup DirActions

\* An action the parser rejects (it is never closed).
BadAction == "{{bad"

\* The capturing dir of scaffold, scaffolder.go:167-170: it returns the
\* name followed by a NUL.
CaptureDir(name) == name \o << NUL >>

\* An execution that stopped with an error at a token: nothing is
\* rendered.  panic says the error is the panic of the placeholder dir,
\* which text/template recovers and returns as the error of the call.
Stopped(panic) ==
    [ok |-> FALSE, out |-> << >>, calls |-> << >>, panic |-> panic,
     user |-> FALSE]

\* What a token that executes adds to rest, the execution of the tokens
\* after it: the rendered text, the (name, context) pairs handed to the
\* capturing dir in call order, and whether a dir of the caller's was
\* called.
TokenRuns(tok, ctx, funcs, rest) ==
    IF tok = "{{.Name}}" THEN [rest EXCEPT !.out = CtxName(ctx) \o @]
    ELSE IF tok = "{{.Opt}}" THEN [rest EXCEPT !.out = CtxOpt(ctx) \o @]
    ELSE IF tok = "{{.Up}}" THEN [rest EXCEPT !.out = CtxUp(ctx) \o @]
    ELSE IF tok \notin DirActions THEN [rest EXCEPT !.out = << tok >> \o @]
    ELSE IF funcs["dir"] = "capture"
    THEN [rest EXCEPT
            !.out = CaptureDir(DirArgName(tok)) \o @,
            !.calls = << << DirArgName(tok), DirArgCtx(tok, ctx) >> >> \o @]
    ELSE [rest EXCEPT !.out = DirArgName(tok) \o @, !.user = TRUE]

\* One token of an execution and the tokens after it.  A field of a
\* context that has none stops the execution with an error, and so does a
\* call of the placeholder dir of scaffolder.go:110; when a later token
\* stops it, what this token did stays done and nothing is rendered.
ExecuteToken(tok, ctx, funcs, rest) ==
    IF ctx = "raw" /\ tok \in FieldActions THEN Stopped(FALSE)
    ELSE IF tok \in DirActions /\ funcs["dir"] = "placeholder"
    THEN Stopped(TRUE)
    ELSE IF rest.ok THEN TokenRuns(tok, ctx, funcs, rest)
    ELSE [TokenRuns(tok, ctx, funcs, rest) EXCEPT !.out = << >>]

\* Execution of a parsed template.
RECURSIVE Execute(_, _, _)
Execute(tmpl, ctx, funcs) ==
    IF tmpl = << >>
    THEN [ok |-> TRUE, out |-> << >>, calls |-> << >>, panic |-> FALSE,
          user |-> FALSE]
    ELSE ExecuteToken(Head(tmpl), ctx, funcs, Execute(Tail(tmpl), ctx, funcs))

\* evaluate, scaffolder.go:279-290: parse, then execute.
evaluate(tmpl, ctx, funcs) ==
    IF \E i \in DOMAIN tmpl : tmpl[i] = BadAction
    THEN [ok |-> FALSE, out |-> << >>, calls |-> << >>, panic |-> FALSE,
          user |-> FALSE]
    ELSE Execute(tmpl, ctx, funcs)

(***************************************************************************)
(* Exclusion patterns (regexp.MatchString on the relative source path).    *)
(* A pattern is text; the model's patterns are literals with optional ^    *)
(* and $ anchors, and "(" alone, which does not compile.                   *)
(***************************************************************************)
\* The characters of a token: a template action is the text it is written
\* with, any other token is one character.
Chars(tok) ==
    CASE tok = "{{.Name}}" -> << "{", "{", ".", "N", "a", "m", "e", "}", "}" >>
      [] tok = "{{.Opt}}" -> << "{", "{", ".", "O", "p", "t", "}", "}" >>
      [] tok = "{{.Up}}" -> << "{", "{", ".", "U", "p", "}", "}" >>
      [] tok = "{{bad" -> << "{", "{", "b", "a", "d" >>
      [] tok = "{{dir x .A}}" ->
             << "{", "{", "d", "i", "r", " ", "\"", "x", "\"", " ", ".", "A",
                "}", "}" >>
      [] tok = "{{dir x .B}}" ->
             << "{", "{", "d", "i", "r", " ", "\"", "x", "\"", " ", ".", "B",
                "}", "}" >>
      [] tok = "{{dir x.tmpl .A}}" ->
             << "{", "{", "d", "i", "r", " ", "\"", "x", ".", "t", "m", "p",
                "l", "\"", " ", ".", "A", "}", "}" >>
      [] tok = "{{dir y .B}}" ->
             << "{", "{", "d", "i", "r", " ", "\"", "y", "\"", " ", ".", "B",
                "}", "}" >>
      [] OTHER -> << tok >>

\* The text of a sequence of tokens, character by character.
RECURSIVE Text(_)
Text(s) == IF s = << >> THEN << >> ELSE Chars(Head(s)) \o Text(Tail(s))

\* The characters regexp.QuoteMeta escapes.
MetaChars ==
    { "\\", ".", "+", "*", "?", "(", ")", "|", "[", "]", "{", "}", "^", "$" }

\* regexp.QuoteMeta: a backslash before every character that means
\* something in a pattern.
RECURSIVE QuoteMeta(_)
QuoteMeta(s) ==
    IF s = << >> THEN << >>
    ELSE IF Chars(Head(s)) # << Head(s) >>
    THEN QuoteMeta(Chars(Head(s)) \o Tail(s))
    ELSE (IF Head(s) \in MetaChars THEN << "\\", Head(s) >>
          ELSE << Head(s) >>) \o QuoteMeta(Tail(s))

\* The characters of a pattern as items [c, lit]: lit for a character
\* behind a backslash, which stands for itself.
RECURSIVE Items(_)
Items(pat) ==
    IF pat = << >> THEN << >>
    ELSE IF pat # Text(pat) THEN Items(Text(pat))
    ELSE IF Head(pat) = "\\" /\ Len(pat) > 1
    THEN << [c |-> pat[2], lit |-> TRUE] >> \o Items(SubSeq(pat, 3, Len(pat)))
    ELSE << [c |-> Head(pat), lit |-> FALSE] >> \o Items(Tail(pat))

Bare(item, c) == item.c = c /\ ~item.lit

RegexValid(pat) ==
    \A i \in DOMAIN Items(pat) :
        ~Bare(Items(pat)[i], "(") /\ ~Bare(Items(pat)[i], "\\")

AnchoredFront(pat) == pat # << >> /\ Bare(Items(pat)[1], "^")

AnchoredBack(pat) == pat # << >> /\ Bare(Items(pat)[Len(Items(pat))], "$")

\* The items of the pattern without its anchors.
Literal(pat) ==
    SubSeq(Items(pat), IF AnchoredFront(pat) THEN 2 ELSE 1,
                       IF AnchoredBack(pat) THEN Len(Items(pat)) - 1
                       ELSE Len(Items(pat)))

\* A bare "." stands for any character.
MatchLiteral(lit, front, back, s) ==
    \E k \in 0..(Len(s) - Len(lit)) :
        /\ \A i \in DOMAIN lit : Bare(lit[i], ".") \/ s[k + i] = lit[i].c
        /\ front => k = 0
        /\ back => k + Len(lit) = Len(s)

\* Whether the pattern matches somewhere in the text of s.
RegexMatch(pat, s) ==
    MatchLiteral(Literal(pat), AnchoredFront(pat), AnchoredBack(pat), Text(s))

(***************************************************************************)
(* The filesystem (package os).  fs maps a clean absolute path to a node   *)
(* [kind, mode, data]: data is the content of a file, the target text of a *)
(* link.  Every operation returns [ok, ...] and the filesystem it leaves.  *)
(***************************************************************************)
\* Symlinks followed in one path resolution before it fails (ELOOP).
MaxHops == 4

Root == << "/" >>

\* The file mode creation mask of the process: the permission bits a call
\* that creates a file or a directory leaves out of the mode it is given.
VARIABLE umask

\* The masks a run is made under: 022 and 077.
Umasks == { 18, 63 }

\* perm &^ mask
RECURSIVE AndNot(_, _)
AndNot(perm, mask) ==
    IF perm = 0 THEN 0
    ELSE 2 * AndNot(perm \div 2, mask \div 2)
         + (IF perm % 2 = 1 /\ mask % 2 = 0 THEN 1 ELSE 0)

Node(kind, mode, data) == [kind |-> kind, mode |-> mode, data |-> data]

Put(fs, p, node) == [q \in DOMAIN fs \cup {p} |-> IF q = p THEN node ELSE fs[q]]

Del(fs, p) == [q \in DOMAIN fs \ {p} |-> fs[q]]

Children(fs, dir) == { p \in DOMAIN fs : p # dir /\ filepath_Dir(p) = dir }

\* Path resolution from the resolved directory cur: links in the middle of
\* the path are followed, the last element's only when followLast.  The
\* empty text stands for a resolution that ran out of hops (ELOOP).
RECURSIVE ResolveFrom(_, _, _, _, _)
ResolveStep(fs, cur, elems, followLast, fuel, nxt) ==
    IF /\ nxt \in DOMAIN fs
       /\ fs[nxt].kind = "link"
       /\ (Len(elems) > 1 \/ followLast)
    THEN IF fuel = 0 THEN << >>
         ELSE ResolveFrom(fs,
                          IF filepath_IsAbs(fs[nxt].data) THEN Root ELSE cur,
                          SplitPath(fs[nxt].data) \o Tail(elems),
                          followLast, fuel - 1)
    ELSE ResolveFrom(fs, nxt, Tail(elems), followLast, fuel)

ResolveFrom(fs, cur, elems, followLast, fuel) ==
    IF elems = << >> THEN cur
    ELSE ResolveStep(fs, cur, elems, followLast, fuel,
                     filepath_Join(cur, Head(elems)))

Resolve(fs, p, followLast) ==
    ResolveFrom(fs, Root, PathElems(p), followLast, MaxHops)

IsDirAt(fs, p) == p \in DOMAIN fs /\ fs[p].kind = "dir"

ReadDirAt(fs, r) ==
    IF IsDirAt(fs, r)
    THEN [ok |-> TRUE,
          names |-> SortNames({ filepath_Base(p) : p \in Children(fs, r) })]
    ELSE [ok |-> FALSE, names |-> << >>]

\* os.ReadDir: the names in the directory, sorted.
os_ReadDir(fs, dir) == ReadDirAt(fs, Resolve(fs, dir, TRUE))

LstatAt(fs, r) ==
    IF r \in DOMAIN fs THEN [ok |-> TRUE, node |-> fs[r]]
    ELSE [ok |-> FALSE, node |-> Node("none", 0, << >>)]

\* os.Lstat (DirEntry.Info): the node itself, links not followed.
os_Lstat(fs, p) == LstatAt(fs, Resolve(fs, p, FALSE))

\* os.Stat: the node the path leads to, links followed.
os_Stat(fs, p) == LstatAt(fs, Resolve(fs, p, TRUE))

MkdirAt(fs, r, mode) ==
    IF r \in DOMAIN fs THEN [ok |-> FALSE, exist |-> TRUE, fs |-> fs]
    ELSE IF r = << >> \/ ~IsDirAt(fs, filepath_Dir(r))
    THEN [ok |-> FALSE, exist |-> FALSE, fs |-> fs]
    ELSE [ok |-> TRUE, exist |-> FALSE,
          fs |-> Put(fs, r, Node("dir", AndNot(mode, umask), << >>))]

\* os.Mkdir: fails when the path exists (exist = TRUE) or has no parent;
\* the directory gets the given mode less the bits of umask.
os_Mkdir(fs, p, mode) == MkdirAt(fs, Resolve(fs, p, FALSE), mode)

\* os.MkdirAll after the parents were made: Mkdir, and when that fails the
\* call succeeds all the same if Lstat finds a directory at the path.
MkdirAfterParents(up, p, mode) ==
    IF ~up.ok THEN [ok |-> FALSE, fs |-> up.fs]
    ELSE IF os_Mkdir(up.fs, p, mode).ok
    THEN [ok |-> TRUE, fs |-> os_Mkdir(up.fs, p, mode).fs]
    ELSE [ok |-> os_Lstat(up.fs, p).ok
                 /\ os_Lstat(up.fs, p).node.kind = "dir",
          fs |-> up.fs]

\* os.MkdirAll: nothing to do where Stat finds a directory, an error where
\* it finds anything else; otherwise the parent is made first, when the
\* path has one that is not the root.
RECURSIVE os_MkdirAll(_, _, _)
os_MkdirAll(fs, p, mode) ==
    IF os_Stat(fs, p).ok
    THEN [ok |-> os_Stat(fs, p).node.kind = "dir", fs |-> fs]
    ELSE MkdirAfterParents(
             IF HasSlash(p) /\ LastSlash(p) > 1
             THEN os_MkdirAll(fs, SubSeq(p, 1, LastSlash(p) - 1), mode)
             ELSE [ok |-> TRUE, fs |-> fs],
             p, mode)

ReadFileAt(fs, r) ==
    IF r \in DOMAIN fs /\ fs[r].kind = "file"
    THEN [ok |-> TRUE, data |-> fs[r].data]
    ELSE [ok |-> FALSE, data |-> << >>]

\* os.ReadFile
os_ReadFile(fs, p) == ReadFileAt(fs, Resolve(fs, p, TRUE))

WriteFileAt(fs, r, data, mode) ==
    IF r \in DOMAIN fs
    THEN IF fs[r].kind = "file"
         THEN [ok |-> TRUE, fs |-> Put(fs, r, Node("file", fs[r].mode, data))]
         ELSE [ok |-> FALSE, fs |-> fs]
    ELSE IF r = << >> \/ ~IsDirAt(fs, filepath_Dir(r))
    THEN [ok |-> FALSE, fs |-> fs]
    ELSE [ok |-> TRUE,
          fs |-> Put(fs, r, Node("file", AndNot(mode, umask), data))]

\* os.WriteFile: an existing file is truncated and keeps its mode, a new
\* one is created with the given mode less the bits of umask.
os_WriteFile(fs, p, data, mode) ==
    WriteFileAt(fs, Resolve(fs, p, TRUE), data, mode)

\* The resolved path r runs through something that is not a directory.
BelowNonDir(fs, r) ==
    \E q \in DOMAIN fs :
        /\ fs[q].kind # "dir"
        /\ Len(r) > Len(q)
        /\ SubSeq(r, 1, Len(q)) = q
        /\ r[Len(q) + 1] = "/"

RemoveAt(fs, r) ==
    IF r \notin DOMAIN fs
    THEN [ok |-> FALSE, notExist |-> r # << >> /\ ~BelowNonDir(fs, r),
          fs |-> fs]
    ELSE IF fs[r].kind = "dir" /\ Children(fs, r) # {}
    THEN [ok |-> FALSE, notExist |-> FALSE, fs |-> fs]
    ELSE [ok |-> TRUE, notExist |-> FALSE, fs |-> Del(fs, r)]

\* os.Remove: notExist when nothing is there (not when the path runs
\* through a file or through too many links); a directory must be empty.
os_Remove(fs, p) == RemoveAt(fs, Resolve(fs, p, FALSE))

SymlinkAt(fs, target, r) ==
    IF \/ target = << >>
       \/ r \in DOMAIN fs \/ r = << >> \/ ~IsDirAt(fs, filepath_Dir(r))
    THEN [ok |-> FALSE, fs |-> fs]
    ELSE [ok |-> TRUE, fs |-> Put(fs, r, Node("link", 511, target))]

\* os.Symlink: the link text is stored as given; an empty text is refused.
os_Symlink(fs, target, p) == SymlinkAt(fs, target, Resolve(fs, p, FALSE))

ReadlinkAt(fs, r) ==
    IF r \in DOMAIN fs /\ fs[r].kind = "link"
    THEN [ok |-> TRUE, target |-> fs[r].data]
    ELSE [ok |-> FALSE, target |-> << >>]

\* os.Readlink
os_Readlink(fs, p) == ReadlinkAt(fs, Resolve(fs, p, FALSE))

(***************************************************************************)
(* Inputs: the arguments of Scaffold and the template tree.                *)
(***************************************************************************)
SourceRoot == << "/", "s" >>
DestRoot   == << "/", "t" >>

\* The marker suffix scaffold strips, scaffolder.go:180.
TmplSuffix == << ".", "t", "m", "p", "l" >>

\* The mode scaffold gives to directories, scaffolder.go:151 and 226.
DirMode == 448

\* One entry of a template tree: its path below the source root and node.
E(rel, kind, mode, data) == [rel |-> rel, node |-> Node(kind, mode, data)]

FanDir == << "{{dir x .A}}", "{{dir y .B}}" >>

\* A link whose target is an absolute path.
AbsLink == { E(<< "c" >>, "link", 511, DestRoot \o << "/", "a" >>) }

\* The destinations Scaffold is called with: an absolute path, and the same
\* directory as a path relative to the working directory, which is the
\* root.
RelDest == << "t" >>

\* The root entries a template tree is made of, each with what is below it.
EntryPool ==
    { { E(<< "a" >>, "file", 384, << "h", "{{.Name}}" >>) },
      { E(<< "a" >>, "link", 511, << "b" >>) },
      { E(<< "a" >>, "link", 511, << "a" >>) },
      { E(<< "b" >>, "link", 511, << "a" >>) },
      { E(<< "b" >>, "link", 511, << "{{.Name}}" >>) },
      { E(<< "b" >>, "file", 420, << "k" >>) },
      { E(<< "d" >>, "dir", 493, << >>),
        E(<< "d", "/", "f" >>, "file", 420, << "{{.Name}}" >>),
        E(<< "d", "/", "l" >>, "link", 511, << ".", ".", "/", "a" >>) },
      { E(FanDir, "dir", 493, << >>),
        E(FanDir \o << "/", "f" >>, "file", 384, << "{{.Name}}" >>),
        E(FanDir \o << "/", "{{.Opt}}" >>, "file", 420, << "z" >>) },
      { E(<< "{{.Opt}}" >>, "dir", 493, << >>),
        E(<< "{{.Opt}}", "/", "f" >>, "file", 420, << "z" >>) },
      { E(<< "g" >>, "file", 384, << "{{dir x .A}}" >>) },
      { E(<< "o" >>, "other", 384, << >>) },
      { E(<< "{{.Name}}" >>, "file", 384, << "w" >>) },
      { E(<< "{{bad" >>, "file", 384, << >>) },
      { E(<< "{{dir x .A}}" >>, "file", 384, << "{{dir y .B}}" >>) },
      { E(<< "a" >> \o TmplSuffix, "file", 420, << "w" >>) },
      { E(<< "a" >> \o TmplSuffix, "link", 511, << "c" >>) },
      { E(<< "{{dir x .A}}", "{{dir x .B}}" >>, "file", 384, << "v" >>) },
      { E(<< "{{dir x.tmpl .A}}" >>, "file", 384, << "v" >>) },
      { E(<< "d" >> \o TmplSuffix, "dir", 493, << >>) },
      { E(<< "{{.Up}}" >>, "file", 384, << "w" >>) },
      AbsLink }

\* The name of the root entry of a pool element.
RootName(shape) ==
    (CHOOSE x \in shape : \A i \in DOMAIN x.rel : x.rel[i] # "/").rel

\* S with each of its sets extended by at most one element of P.
ExtendedBy(S, P) == S \cup { A \cup {x} : A \in S, x \in P }

\* The sets of at most k elements of S.
RECURSIVE SubsetsUpTo(_, _)
SubsetsUpTo(S, k) ==
    IF k = 0 THEN { {} } ELSE ExtendedBy(SubsetsUpTo(S, k - 1), S)

\* Template trees: at most MaxEntries root entries with distinct names.
Trees ==
    { T \in SubsetsUpTo(EntryPool, MaxEntries) :
        \A s1, s2 \in T : s1 # s2 => RootName(s1) # RootName(s2) }

\* The filesystem that holds the entries es under the source root, and no
\* destination yet.
FsOf(es) ==
    [p \in { Root, SourceRoot } \cup { SourceRoot \o << "/" >> \o e.rel : e \in es } |->
       IF \E e \in es : SourceRoot \o << "/" >> \o e.rel = p
       THEN (CHOOSE e \in es : SourceRoot \o << "/" >> \o e.rel = p).node
       ELSE Node("dir", 493, << >>)]

\* The filesystem Scaffold starts in.
InitialFs(T) == FsOf(UNION T)

\* A pattern for the entry f of the directory d.
BelowPattern == << "^", "d", "/", "f", "$" >>

\* The lists the Exclude option is called with: no pattern, a pattern for
\* the root entry b, one for the root entry d, one for an entry of d, a
\* pattern that does not compile, and one that does not compile behind one
\* that does.
ExcludeChoices ==
    { << >>,
      << << "^", "b", "$" >> >>,
      << << "^", "d", "$" >> >>,
      << BelowPattern >>,
      << << "(" >> >>,
      << << "^", "b", "$" >>, << "(" >> >> }

\* The script the javascript extension is made for, javascript.go:47, in
\* the runs of Scaffold the model starts itself.
ScriptPath == << "a" >>

\* The pattern the javascript extension made for scriptPath appends to
\* Config.Exclude, javascript.go:56.
ExtensionPattern(scriptPath) == << "^" >> \o QuoteMeta(scriptPath) \o << "$" >>

\* A slip: the extension runs a script whether there is one or not.
ScriptFoundAlways(f, source, scriptPath) == TRUE

\* javascript.go:70-71: the script is run when it can be read.
ScriptFound(f, source, scriptPath) ==
    os_ReadFile(f, filepath_Join(source, scriptPath)).ok

(***************************************************************************)
(* State.                                                                  *)
(***************************************************************************)
VARIABLES
    fs,                 \* the filesystem
    args,               \* Scaffold's parameters source, destination, ctx
    opts,               \* scaffoldOptions: Config and the plugins
    pc,                 \* where Scaffold is
    ext,                \* plugins whose Extend has been called
    stack,              \* the active calls of state.scaffold
    deferredSymlinks,   \* state.deferredSymlinks
    applyStack,         \* the active calls of state.applySymlinks
    err,                \* the error Scaffold returns, "" for none
    log,                \* what the run did so far, in order
    prior               \* the call of Scaffold before this one, if any

vars == << fs, umask, args, opts, pc, ext, stack, deferredSymlinks,
           applyStack, err, log, prior >>

Ev(op, path, data, ctx, n) ==
    [op |-> op, path |-> path, data |-> data, ctx |-> ctx, n |-> n]

EmptyMap == [x \in {} |-> x]

\* Scaffold up to its first loop, scaffolder.go:103-116: the placeholder
\* dir is in the function table unless the Functions option put a function
\* of the caller there.  The stricter mask, the relative destination and
\* the caller's dir are tried without plugins and patterns, the relative
\* destination on the trees with the absolute link, the pattern for an
\* entry of d without plugins on the trees with d.
Init ==
    \E T \in Trees, n \in 0..MaxPlugins, ex \in ExcludeChoices,
       m \in Umasks, dst \in { DestRoot, RelDest },
       dir \in { "placeholder", "user" } :
        /\ (n > 0 \/ ex # << >>) => m = 18
        /\ dst = RelDest => (n = 0 /\ ex = << >> /\ m = 18 /\ AbsLink \in T)
        /\ dir = "user" => (n = 0 /\ ex = << >> /\ m = 18 /\ dst = DestRoot)
        /\ ex = << BelowPattern >> =>
              (n = 0 /\ \E s \in T : RootName(s) = << "d" >>)
        /\ fs = InitialFs(T)
        /\ umask = m
        /\ args = [source |-> SourceRoot, destination |-> dst,
                   ctx |-> "c0"]
        /\ opts = [Context |-> "c0",
                   Funcs |-> [f \in { "dir" } |-> dir],
                   Exclude |-> ex,
                   source |-> SourceRoot,
                   target |-> dst,
                   plugins |-> n,
                   script |-> ScriptPath]
        /\ pc = "extend"
        /\ ext = 0
        /\ stack = << >>
        /\ deferredSymlinks = EmptyMap
        /\ applyStack = << >>
        /\ err = ""
        /\ log = << >>
        /\ prior = [run |-> 1, tree |-> EmptyMap]

(***************************************************************************)
(* state.scaffold and state.scaffoldEntry.                                 *)
(*                                                                         *)
(* A frame of stack is one active call of scaffold(srcDir, dstDir, ctx):   *)
(* names is the listing ReadDir returned, i the entry the loop is at, and  *)
(* stage says where in the loop body the call is: "loop" at its head,      *)
(* "single" before the call at line 188, "range" in the loop at 192-196.   *)
(* srcPath, dstPath, info, funcs and subDirs are the loop body's locals;   *)
(* start and done are the keys subDirs had when the range loop began and   *)
(* those it has produced so far.                                           *)
(***************************************************************************)
NoInfo == Node("none", 0, << >>)

Frame(srcDir, dstDir, ctx, names) ==
    [srcDir |-> srcDir, dstDir |-> dstDir, ctx |-> ctx, names |-> names,
     i |-> 1, stage |-> "loop", srcPath |-> << >>, dstPath |-> << >>,
     info |-> NoInfo, funcs |-> [f \in { "dir" } |-> "placeholder"],
     subDirs |-> EmptyMap, start |-> {}, done |-> {}]

Top(st) == st[Len(st)]

SetTop(st, fr) == [st EXCEPT ![Len(st)] = fr]

\* The loop of scaffold moving on to its next entry.
NextEntry(fr) ==
    [fr EXCEPT !.i = @ + 1, !.stage = "loop", !.subDirs = EmptyMap,
               !.start = {}, !.done = {}]

\* A slip: the error of an entry is dropped and the loop goes on.
ReturnErrSwallow(st) ==
    IF st = << >> THEN [pc |-> "links", stack |-> st]
    ELSE [pc |-> "walk", stack |-> SetTop(st, NextEntry(Top(st)))]

\* An error in the walk: every active scaffold and scaffoldEntry returns
\* it (scaffolder.go:189, 194, 234) and Scaffold returns at 129-131.
ReturnErr(st) == [pc |-> "failed", stack |-> << >>]

\* subDirs after the given calls of the capturing dir, scaffolder.go:168.
RECURSIVE Captured(_, _)
Captured(m, calls) ==
    IF calls = << >> THEN m
    ELSE Captured(Put(m, Head(calls)[1], Head(calls)[2]), Tail(calls))

\* A slip: the patterns are matched against the name of the entry.
relPathOfName(source, srcPath) == filepath_Base(srcPath)

\* scaffolder.go:157: the path the exclusion patterns are matched against.
relPath(source, srcPath) == filepath_Rel(source, srcPath).path

\* A slip: an entry is kept whatever its name renders to.
OmittedNever(dstName) == FALSE

\* scaffolder.go:175-177: an entry whose name renders to nothing is left
\* out.
Omitted(dstName) == dstName = << >>

\* The exclusion loop, scaffolder.go:158-164: the first pattern that does
\* not compile is an error, the first that matches skips the entry.
RECURSIVE ExcludeScan(_, _)
ExcludeScan(pats, rel) ==
    IF pats = << >> THEN "keep"
    ELSE IF ~RegexValid(Head(pats)) THEN "error"
    ELSE IF RegexMatch(Head(pats), rel) THEN "skip"
    ELSE ExcludeScan(Tail(pats), rel)

\* The plugins whose AfterEach is called, in call order, by the loops at
\* scaffolder.go:229-233 and 249-253; bad is the first plugin whose call
\* returns an error, 0 when none does.
AfterEachOrder(n, bad) == [j \in 1..(IF bad = 0 THEN n ELSE bad) |-> j]

EventsOf(path, order) ==
    [j \in DOMAIN order |-> Ev("after", path, << >>, "", order[j])]

AfterEvents(path, n, bad) == EventsOf(path, AfterEachOrder(n, bad))

\* What a call of scaffoldEntry or scaffold leaves behind.
Outcome(status, e, f, d, events, calls) ==
    [status |-> status, err |-> e, fs |-> f, deferred |-> d,
     events |-> events, calls |-> calls]

Rendered(srcPath, what, ctx) == << Ev("render", srcPath, what, ctx, 0) >>

\* A slip: the target is recorded as it was rendered.
RelativeTargetKeep(dstPath, target) == [ok |-> TRUE, path |-> target]

\* scaffolder.go:214-221: an absolute target is made relative to the
\* directory of the link.
RelativeTarget(dstPath, target) ==
    IF filepath_IsAbs(target)
    THEN filepath_Rel(filepath_Dir(dstPath), target)
    ELSE [ok |-> TRUE, path |-> target]

\* A dir that is not the capturing one was called while evaluate
\* rendered: a function of the caller's, or the placeholder.
Invoked(ev, srcPath, what, ctx) ==
    (IF ev.user THEN << Ev("user", srcPath, what, ctx, 0) >> ELSE << >>)
    \o (IF ev.panic THEN << Ev("placeholder", srcPath, what, ctx, 0) >>
        ELSE << >>)

\* scaffolder.go:215-223: the target rel is recorded for dstPath.
SymlinkRecord(f, d, srcPath, dstPath, ctx, ev, rel) ==
    IF ~rel.ok
    THEN Outcome("error", "rel", f, d, Rendered(srcPath, "target", ctx),
                 ev.calls)
    ELSE Outcome("ok", "", f, Put(d, dstPath, rel.path),
                 Rendered(srcPath, "target", ctx)
                 \o Invoked(ev, srcPath, "target", ctx)
                 \o << Ev("record", dstPath, rel.path, ctx, 0) >>,
                 ev.calls)

\* scaffolder.go:209-212: ev is the evaluation of the target.
SymlinkEvaluated(f, d, srcPath, dstPath, ctx, ev) ==
    IF ~ev.ok
    THEN Outcome("error", "target", f, d,
                 Rendered(srcPath, "target", ctx)
                 \o Invoked(ev, srcPath, "target", ctx),
                 << >>)
    ELSE SymlinkRecord(f, d, srcPath, dstPath, ctx, ev,
                       RelativeTarget(dstPath, ev.out))

\* scaffolder.go:204-207: rl is what Readlink returned.
SymlinkRead(f, d, srcPath, dstPath, ctx, funcs, io, rl) ==
    IF io \/ ~rl.ok THEN Outcome("error", "readlink", f, d, << >>, << >>)
    ELSE SymlinkEvaluated(f, d, srcPath, dstPath, ctx,
                          evaluate(rl.target, ctx, funcs))

\* The symlink case, scaffolder.go:203-223.
scaffoldSymlink(f, d, srcPath, dstPath, ctx, funcs, io) ==
    SymlinkRead(f, d, srcPath, dstPath, ctx, funcs, io,
                os_Readlink(f, srcPath))

\* scaffolder.go:226-233: mk is what MkdirAll returned.
DirectoryMade(f, d, dstPath, ctx, n, io, bad, mk) ==
    IF io \/ ~mk.ok THEN Outcome("error", "mkdirall", f, d, << >>, << >>)
    ELSE Outcome(IF bad # 0 THEN "error" ELSE "recurse",
                 IF bad # 0 THEN "after" ELSE "",
                 mk.fs, d,
                 << Ev("mkdirall", dstPath, << >>, ctx, 0) >>
                 \o AfterEvents(dstPath, n, bad),
                 << >>)

\* The directory case up to the recursive call, scaffolder.go:225-233.
scaffoldDirectory(f, d, dstPath, ctx, n, io, bad) ==
    DirectoryMade(f, d, dstPath, ctx, n, io, bad,
                  os_MkdirAll(f, dstPath, DirMode))

\* scaffolder.go:245-253: wf is what WriteFile returned.
FileWritten(f, d, srcPath, dstPath, ctx, n, io, bad, ev, wf) ==
    IF io \/ ~wf.ok
    THEN Outcome("error", "writefile", f, d,
                 Rendered(srcPath, "content", ctx), ev.calls)
    ELSE Outcome(IF bad # 0 THEN "error" ELSE "ok",
                 IF bad # 0 THEN "after" ELSE "",
                 wf.fs, d,
                 Rendered(srcPath, "content", ctx)
                 \o Invoked(ev, srcPath, "content", ctx)
                 \o << Ev("write", dstPath, ev.out, ctx, 0) >>
                 \o AfterEvents(dstPath, n, bad),
                 ev.calls)

\* scaffolder.go:241-245: ev is the evaluation of the content.
FileEvaluated(f, d, info, srcPath, dstPath, ctx, n, io, bad, ev) ==
    IF ~ev.ok
    THEN Outcome("error", "content", f, d,
                 Rendered(srcPath, "content", ctx)
                 \o Invoked(ev, srcPath, "content", ctx),
                 << >>)
    ELSE FileWritten(f, d, srcPath, dstPath, ctx, n, io, bad, ev,
                     os_WriteFile(f, dstPath, ev.out, info.mode))

\* scaffolder.go:237-241: rf is what ReadFile returned.
FileRead(f, d, info, srcPath, dstPath, ctx, funcs, n, io, bad, rf) ==
    IF ~rf.ok THEN Outcome("error", "readfile", f, d, << >>, << >>)
    ELSE FileEvaluated(f, d, info, srcPath, dstPath, ctx, n, io, bad,
                       evaluate(rf.data, ctx, funcs))

\* The regular file case, scaffolder.go:236-253.
scaffoldFile(f, d, info, srcPath, dstPath, ctx, funcs, n, io, bad) ==
    FileRead(f, d, info, srcPath, dstPath, ctx, funcs, n, io, bad,
             os_ReadFile(f, srcPath))

\* The outcome of a call, with the call itself put in front of what it did.
Called(e, out) == [out EXCEPT !.events = << e >> \o @]

\* scaffoldEntry, scaffolder.go:201-259.  f and d are the filesystem and
\* the deferred map it starts with, n the number of plugins; io says that
\* the operating system fails the call's write, bad which AfterEach fails.
scaffoldEntry(f, d, info, srcPath, dstPath, ctx, funcs, n, io, bad) ==
    Called(Ev("entry", srcPath, dstPath, ctx, 0),
           CASE info.kind = "link" ->
                    scaffoldSymlink(f, d, srcPath, dstPath, ctx, funcs, io)
             [] info.kind = "dir" ->
                    scaffoldDirectory(f, d, dstPath, ctx, n, io, bad)
             [] info.kind = "file" ->
                    scaffoldFile(f, d, info, srcPath, dstPath, ctx, funcs, n,
                                 io, bad)
             [] OTHER -> Outcome("error", "unsupported", f, d, << >>, << >>))

\* scaffolder.go:147-153: rd and mk are what ReadDir and Mkdir returned.
Entered(f, d, dstDir, ctx, io, rd, mk) ==
    IF ~rd.ok THEN Outcome("error", "readdir", f, d, << >>, << >>)
    ELSE IF io \/ (~mk.ok /\ ~mk.exist)
    THEN Outcome("error", "mkdir", f, d, << >>, << >>)
    ELSE Outcome("ok", "", mk.fs, d,
                 IF mk.ok THEN << Ev("mkdir", dstDir, << >>, ctx, 0) >>
                 ELSE << >>,
                 << >>)

\* The head of scaffold, scaffolder.go:147-153: the listing of srcDir and
\* the destination directory, which may exist already.
scaffoldEnter(f, d, srcDir, dstDir, ctx, io) ==
    Entered(f, d, dstDir, ctx, io, os_ReadDir(f, srcDir),
            os_Mkdir(f, dstDir, DirMode))

(***************************************************************************)
(* Scaffold: the Extend loop and the walk.                                 *)
(***************************************************************************)
\* A slip: the walk does not wait for the Extend loop.
ExtendsDoneEarly(k, n) == TRUE

\* The loop at scaffolder.go:118-122 is over once every plugin was called.
ExtendsDone(k, n) == k >= n

\* One pass of the loop at scaffolder.go:118-122.  What Extend does is the
\* plugin's business: it returns nil, returns an error, or replaces
\* Config.Context and returns nil.  A plugin may be the javascript
\* extension (javascript.go:54-110): it appends its pattern to
\* Config.Exclude, runs the script if there is one, and returns nil
\* ("script") unless the script fails ("throws"); the functions the script
\* defines are put in Config.Funcs, and dir may be one of them ("defines").
Extend ==
    /\ pc = "extend"
    /\ ~ExtendsDone(ext, opts.plugins)
    /\ \E outcome \in { "nil", "error", "context", "script", "throws",
                         "defines" } :
        /\ outcome \in { "throws", "defines" } => ScriptFound(fs, opts.source, opts.script)
        /\ ext' = ext + 1
        /\ log' = log
                  \o << Ev("extend", << >>,
                           IF outcome \in { "script", "throws", "defines" }
                           THEN "script" ELSE << >>,
                           "", ext + 1) >>
                  \o (IF outcome \in { "error", "throws" }
                      THEN << Ev("error", << >>, "extend", "", 0) >>
                      ELSE << >>)
        /\ opts' = IF outcome = "context"
                   THEN [opts EXCEPT !.Context = "cx"]
                   ELSE IF outcome \in { "script", "throws" }
                   THEN [opts EXCEPT !.Exclude = Append(@, ExtensionPattern(opts.script))]
                   ELSE IF outcome = "defines"
                   THEN [opts EXCEPT !.Exclude = Append(@, ExtensionPattern(opts.script)),
                                     !.Funcs = Put(@, "dir", "user")]
                   ELSE opts
        /\ pc' = IF outcome \in { "error", "throws" } THEN "failed" ELSE pc
        /\ err' = IF outcome \in { "error", "throws" } THEN "extend" ELSE err
    /\ UNCHANGED << fs, args, prior, umask, stack, deferredSymlinks, applyStack >>

\* The state a failed step of the walk leaves: the error is returned.
WalkFails(out) ==
    /\ fs' = out.fs
    /\ deferredSymlinks' = out.deferred
    /\ pc' = ReturnErr(stack).pc
    /\ stack' = ReturnErr(stack).stack
    /\ err' = out.err
    /\ log' = log \o out.events \o << Ev("error", << >>, out.err, "", 0) >>

\* The call s.scaffold(source, destination, ctx), scaffolder.go:124-129,
\* up to the loop of scaffold.
StartWalk ==
    /\ pc = "extend"
    /\ ExtendsDone(ext, opts.plugins)
    /\ \E io \in BOOLEAN :
       \E out \in { scaffoldEnter(fs, deferredSymlinks, args.source,
                                  args.destination, args.ctx, io) } :
          IF out.status = "error" THEN WalkFails(out)
          ELSE /\ fs' = out.fs
               /\ pc' = "walk"
               /\ stack' = << Frame(args.source, args.destination, args.ctx,
                                    os_ReadDir(fs, args.source).names) >>
               /\ log' = log \o out.events
               /\ UNCHANGED << deferredSymlinks, err >>
    /\ UNCHANGED << args, prior, umask, opts, ext, applyStack >>

\* The walk goes on with the top frame replaced.
GoOn(frame, events) ==
    /\ stack' = SetTop(stack, frame)
    /\ log' = log \o events
    /\ UNCHANGED << fs, deferredSymlinks, pc, err >>

Visited(fr, srcPath) == << Ev("visit", srcPath, fr.dstDir, fr.ctx, 0) >>

NameRendered(fr, srcPath) ==
    << Ev("visit", srcPath, fr.dstDir, fr.ctx, 0),
       Ev("render", srcPath, "name", fr.ctx, 0) >>

\* The loop body of scaffold for the entry at srcPath, scaffolder.go:158-186:
\* scan is the outcome of the exclusion loop, ev the evaluation of the name
\* with funcs, info what entry.Info returned.
VisitStep(fr, srcPath, scan, funcs, ev, info) ==
    CASE scan = "error" ->
             WalkFails(Outcome("error", "exclude", fs, deferredSymlinks,
                               Visited(fr, srcPath), << >>))
      [] scan = "skip" -> GoOn(NextEntry(fr), Visited(fr, srcPath))
      [] scan = "keep" /\ ~ev.ok ->
             WalkFails(Outcome("error", "name", fs, deferredSymlinks,
                               NameRendered(fr, srcPath)
                               \o Invoked(ev, srcPath, "name", fr.ctx),
                               << >>))
      [] scan = "keep" /\ ev.ok /\ Omitted(ev.out) ->
             GoOn(NextEntry(fr), NameRendered(fr, srcPath))
      [] scan = "keep" /\ ev.ok /\ ~Omitted(ev.out) /\ ~info.ok ->
             WalkFails(Outcome("error", "info", fs, deferredSymlinks,
                               NameRendered(fr, srcPath), << >>))
      [] OTHER ->
             GoOn([fr EXCEPT
                     !.srcPath = srcPath,
                     !.dstPath = TrimSuffix(filepath_Join(fr.dstDir, ev.out),
                                            TmplSuffix),
                     !.info = info.node, !.funcs = funcs,
                     !.subDirs = Captured(EmptyMap, ev.calls),
                     !.stage = IF ev.calls = << >> THEN "single"
                               ELSE "range",
                     !.start = DOMAIN Captured(EmptyMap, ev.calls),
                     !.done = {}],
                  NameRendered(fr, srcPath)
                  \o Invoked(ev, srcPath, "name", fr.ctx))

\* A slip: dir is set in the function table of the configuration itself.
SharedFuncsAliased(shared, clone) == clone

\* maps.Clone, scaffolder.go:165: what is set in the clone is not set in
\* the table it was cloned from.
SharedFuncs(shared, clone) == shared

\* A slip: the function table is cloned and dir is left as it is.
CapturesNot(funcs) == funcs

\* scaffolder.go:165-170: the clone of the function table with the
\* capturing dir in it.
Captures(funcs) == Put(funcs, "dir", "capture")

\* The loop body of scaffold up to the calls of scaffoldEntry,
\* scaffolder.go:155-186.
VisitEntry ==
    /\ pc = "walk"
    /\ stack # << >>
    /\ Top(stack).stage = "loop"
    /\ Top(stack).i <= Len(Top(stack).names)
    /\ \E srcPath \in { filepath_Join(Top(stack).srcDir,
                                      Top(stack).names[Top(stack).i]) },
          funcs \in { Captures(opts.Funcs) } :
       \E scan \in { ExcludeScan(opts.Exclude,
                                 relPath(opts.source, srcPath)) },
          ev \in { evaluate(Top(stack).names[Top(stack).i], Top(stack).ctx,
                            funcs) },
          info \in { os_Lstat(fs, srcPath) } :
          /\ VisitStep(Top(stack), srcPath, scan, funcs, ev, info)
          /\ opts' = [opts EXCEPT !.Funcs = SharedFuncs(@, funcs)]
    /\ UNCHANGED << args, prior, umask, ext, applyStack >>

\* scaffold(srcPath, dstPath, ctx) called by scaffoldEntry for a directory,
\* scaffolder.go:234: en is the outcome of its head.
Recurse(fr, out, en, srcPath, dstPath, ctx) ==
    IF en.status = "error"
    THEN WalkFails([en EXCEPT !.events = out.events \o @])
    ELSE /\ stack' = Append(SetTop(stack, fr),
                            Frame(srcPath, dstPath, ctx,
                                  os_ReadDir(out.fs, srcPath).names))
         /\ log' = log \o out.events \o en.events
         /\ fs' = en.fs
         /\ deferredSymlinks' = en.deferred
         /\ UNCHANGED << pc, err >>

\* What follows a call scaffoldEntry(info, srcPath, dstPath, ctx, funcs)
\* made from the top frame, which goes on as frame fr once the call is
\* back.  A directory goes on into scaffold(srcPath, dstPath, ctx),
\* scaffolder.go:234.
AfterEntry(fr, out, srcPath, dstPath, ctx) ==
    CASE out.status = "error" -> WalkFails(out)
      [] out.status = "ok" ->
             /\ stack' = SetTop(stack, fr)
             /\ log' = log \o out.events
             /\ fs' = out.fs
             /\ deferredSymlinks' = out.deferred
             /\ UNCHANGED << pc, err >>
      [] OTHER ->
             \E en \in { scaffoldEnter(out.fs, out.deferred, srcPath, dstPath,
                                       ctx, FALSE) } :
                Recurse(fr, out, en, srcPath, dstPath, ctx)

\* The call at scaffolder.go:188, made when the name called dir not once.
EntrySingle ==
    /\ pc = "walk"
    /\ stack # << >>
    /\ Top(stack).stage = "single"
    /\ \E io \in BOOLEAN, bad \in 0..opts.plugins :
       \E fr \in { Top(stack) } :
       \E out \in { scaffoldEntry(fs, deferredSymlinks, fr.info, fr.srcPath,
                                  fr.dstPath, fr.ctx, fr.funcs, opts.plugins,
                                  io, bad) } :
       \E sub \in { Captured(fr.subDirs, out.calls) } :
          AfterEntry([fr EXCEPT !.subDirs = sub, !.stage = "range",
                                !.start = DOMAIN sub, !.done = {}],
                     out, fr.srcPath, fr.dstPath, fr.ctx)
    /\ UNCHANGED << args, prior, umask, opts, ext, applyStack >>

\* One pass of the loop at scaffolder.go:192-196.  A Go map is ranged over
\* in no fixed order; a key added while the loop runs may be produced or
\* not.
EntryRange ==
    /\ pc = "walk"
    /\ stack # << >>
    /\ Top(stack).stage = "range"
    /\ \E k \in DOMAIN Top(stack).subDirs \ Top(stack).done,
          io \in BOOLEAN, bad \in 0..opts.plugins :
       \E fr \in { Top(stack) } :
       \E dst \in { filepath_Join(fr.dstDir, k) } :
       \E out \in { scaffoldEntry(fs, deferredSymlinks, fr.info, fr.srcPath,
                                  dst, fr.subDirs[k], fr.funcs, opts.plugins,
                                  io, bad) } :
          AfterEntry([fr EXCEPT !.subDirs = Captured(fr.subDirs, out.calls),
                                !.done = @ \cup {k}],
                     out, fr.srcPath, dst, fr.subDirs[k])
    /\ UNCHANGED << args, prior, umask, opts, ext, applyStack >>

\* The loop at scaffolder.go:192-196 ends: every key the map held when the
\* loop began has been produced.
RangeEnd ==
    /\ pc = "walk"
    /\ stack # << >>
    /\ Top(stack).stage = "range"
    /\ Top(stack).start \subseteq Top(stack).done
    /\ stack' = SetTop(stack, NextEntry(Top(stack)))
    /\ UNCHANGED << fs, args, prior, umask, opts, pc, ext, deferredSymlinks, applyStack,
                    err, log >>

\* scaffold returns nil, scaffolder.go:198; the outermost call returns to
\* Scaffold, which goes on to the deferred symlinks.
ReturnDir ==
    /\ pc = "walk"
    /\ stack # << >>
    /\ Top(stack).stage = "loop"
    /\ Top(stack).i > Len(Top(stack).names)
    /\ stack' = SubSeq(stack, 1, Len(stack) - 1)
    /\ pc' = IF Len(stack) = 1 THEN "links" ELSE pc
    /\ UNCHANGED << fs, args, prior, umask, opts, ext, deferredSymlinks, applyStack,
                    err, log >>

(***************************************************************************)
(* The deferred symlinks: the loop at scaffolder.go:133-137 and            *)
(* state.applySymlinks.  A frame of applyStack is one active call          *)
(* applySymlinks(path): "enter" at its head, "resume" once its recursive   *)
(* call is made, with the target read at line 263.                         *)
(***************************************************************************)
ApplyFrame(path, target, stage) ==
    [path |-> path, target |-> target, stage |-> stage]

\* A slip: the target is taken as it is, not relative to the link.
TargetPathUnjoined(path, target) == filepath_Clean(target)

\* scaffolder.go:267: the path the target text of the link at path names.
TargetPath(path, target) ==
    filepath_Clean(filepath_Join(filepath_Dir(path), target))

\* scaffolder.go:276: the text the link is created with.
LinkText(path, target) == target

\* The state a failed applySymlinks leaves: every caller returns the
\* error (scaffolder.go:268-270) and so does Scaffold (134-136).
LinksFail(cause, f) ==
    /\ pc' = "failed"
    /\ err' = cause
    /\ applyStack' = << >>
    /\ fs' = f
    /\ log' = Append(log, Ev("error", << >>, cause, "", 0))

\* One pass of the loop at scaffolder.go:133: a key the map still holds.
ApplyPick ==
    /\ pc = "links"
    /\ applyStack = << >>
    /\ \E k \in DOMAIN deferredSymlinks :
        applyStack' = << ApplyFrame(k, << >>, "enter") >>
    /\ UNCHANGED << fs, args, prior, umask, opts, pc, ext, stack, deferredSymlinks, err,
                    log >>

\* applySymlinks returns nil to its caller.
ApplyReturn == SubSeq(applyStack, 1, Len(applyStack) - 1)

\* applySymlinks up to its recursive call, scaffolder.go:263-268.  The
\* recursion has no bound of its own: MaxApplyDepth calls deep, the
\* goroutine stack is taken to be exhausted and the program dies.
ApplyEnter ==
    /\ pc = "links"
    /\ applyStack # << >>
    /\ Top(applyStack).stage = "enter"
    /\ \E path \in { Top(applyStack).path } :
       IF path \notin DOMAIN deferredSymlinks
       THEN /\ applyStack' = ApplyReturn
            /\ UNCHANGED << pc, err >>
       ELSE IF Len(applyStack) >= MaxApplyDepth
            THEN /\ pc' = "overflow"
                 /\ UNCHANGED << applyStack, err >>
            ELSE /\ applyStack' =
                        Append(SetTop(applyStack,
                                      ApplyFrame(path, deferredSymlinks[path],
                                                 "resume")),
                               ApplyFrame(TargetPath(path,
                                                     deferredSymlinks[path]),
                                          << >>, "enter"))
                 /\ UNCHANGED << pc, err >>
    /\ UNCHANGED << fs, args, prior, umask, opts, ext, stack, deferredSymlinks, log >>

\* applySymlinks after its recursive call returned nil,
\* scaffolder.go:271-276.
ApplyResume ==
    /\ pc = "links"
    /\ applyStack # << >>
    /\ Top(applyStack).stage = "resume"
    /\ \E ioRemove \in BOOLEAN, ioSymlink \in BOOLEAN :
       \E path \in { Top(applyStack).path },
          text \in { LinkText(Top(applyStack).path, Top(applyStack).target) } :
       \E rm \in { os_Remove(fs, path) } :
       \E sl \in { os_Symlink(rm.fs, text, path) } :
          /\ deferredSymlinks' = Del(deferredSymlinks, path)
          /\ IF ioRemove \/ (~rm.ok /\ ~rm.notExist)
             THEN LinksFail("remove", fs)
             ELSE IF ioSymlink \/ ~sl.ok
             THEN LinksFail("symlink", rm.fs)
             ELSE /\ fs' = sl.fs
                  /\ applyStack' = ApplyReturn
                  /\ log' = Append(log, Ev("symlink", path, text, "", 0))
                  /\ UNCHANGED << pc, err >>
    /\ UNCHANGED << args, prior, umask, opts, ext, stack >>

\* Scaffold returns nil, scaffolder.go:138.
ReturnNil ==
    /\ pc = "links"
    /\ applyStack = << >>
    /\ DOMAIN deferredSymlinks = {}
    /\ pc' = "done"
    /\ UNCHANGED << fs, args, prior, umask, opts, ext, stack, deferredSymlinks, applyStack,
                    err, log >>

Next ==
    \/ Extend
    \/ StartWalk
    \/ VisitEntry
    \/ EntrySingle
    \/ EntryRange
    \/ RangeEnd
    \/ ReturnDir
    \/ ApplyPick
    \/ ApplyEnter
    \/ ApplyResume
    \/ ReturnNil

Spec == Init /\ [][Next]_vars

(***************************************************************************)
(* The command-line tool, cmd/scaffolder/main.go.  cli is the parsed       *)
(* command line: both arguments are directories that exist.                *)
(***************************************************************************)
cli == [Template |-> SourceRoot, Dest |-> DestRoot]

\* main.go:47: the script main makes the javascript extension for.
TemplateJs == << "t", "e", "m", "p", "l", "a", "t", "e", ".", "j", "s" >>

\* main.go:34: the arguments main calls Scaffold with.
main_args(c) ==
    [source |-> c.Template, destination |-> c.Template, ctx |-> "raw"]

\* main up to the first loop of Scaffold, main.go:27-47: no pattern, the
\* placeholder dir among the functions (none of main's is called dir), and
\* one extension, javascript.Extension("template.js"); the template
\* directory may hold that script.
MainInit ==
    \E T \in Trees, js \in BOOLEAN :
        /\ fs = Put(IF js
                    THEN Put(InitialFs(T),
                             filepath_Join(cli.Template, TemplateJs),
                             Node("file", 420, << "j" >>))
                    ELSE InitialFs(T),
                    cli.Dest, Node("dir", 493, << >>))
        /\ umask = 18
        /\ args = main_args(cli)
        /\ opts = [Context |-> main_args(cli).ctx,
                   Funcs |-> [f \in { "dir" } |-> "placeholder"],
                   Exclude |-> << >>,
                   source |-> main_args(cli).source,
                   target |-> main_args(cli).destination,
                   plugins |-> 1,
                   script |-> TemplateJs]
        /\ pc = "extend"
        /\ ext = 0
        /\ stack = << >>
        /\ deferredSymlinks = EmptyMap
        /\ applyStack = << >>
        /\ err = ""
        /\ log = << >>
        /\ prior = [run |-> 1, tree |-> EmptyMap]

\* A step of the run main starts: the extension is the javascript one,
\* which adds its pattern in Extend (javascript.go:55-56) and whose
\* AfterEach returns nil (scaffolder.go:31).
MainRun ==
    /\ Next
    /\ err' # "after"
    /\ ext' # ext => Len(opts'.Exclude) > Len(opts.Exclude)

MainSpec == MainInit /\ [][MainRun]_vars

(***************************************************************************)
(* WalkDir, walkdir.go.  A walk has the variables of a run of Scaffold:    *)
(* args is the parameter dir, stack the active calls of WalkDir, log the   *)
(* calls of fn with what each returned, err the value a call returns with  *)
(* ("" for nil) and pc where the walk is: "walkdir" inside the top call,   *)
(* "return" when the top call returns err, "done" and "failed" when the    *)
(* outermost call has returned nil or an error.  A frame's stage is        *)
(* "enter" at lines 18-27, "list" at 28, "loop" at 32 and "called" while   *)
(* the call of line 34 is active.  What fn returns is the caller's         *)
(* business: nil, ErrSkip or another error.                                *)
(***************************************************************************)
\* The trees walked: a file, a link to a directory, a directory with a
\* directory in it, an empty directory.
WalkPool ==
    { { E(<< "a" >>, "file", 420, << "k" >>) },
      { E(<< "b" >>, "link", 511, << "d" >>) },
      { E(<< "d" >>, "dir", 493, << >>),
        E(<< "d", "/", "f" >>, "file", 420, << "k" >>),
        E(<< "d", "/", "b" >>, "dir", 493, << >>),
        E(<< "d", "/", "b", "/", "a" >>, "file", 420, << "k" >>) },
      { E(<< "h" >>, "dir", 493, << >>) } }

WalkTrees == SubsetsUpTo(WalkPool, MaxEntries)

\* The directories WalkDir is called on: the root of the tree and a path
\* that is a file in some trees and missing in the others.
WalkRoots == { SourceRoot, SourceRoot \o << "/", "a" >> }

\* What fn returns: nil, ErrSkip, another error.
FnResults == { "", "skip", "error" }

WalkFrame(dir) == [dir |-> dir, stage |-> "enter", names |-> << >>, i |-> 1]

WalkDirInit ==
    \E T \in WalkTrees, dir \in WalkRoots :
        /\ fs = InitialFs(T)
        /\ umask = 18
        /\ args = [dir |-> dir]
        /\ opts = [plugins |-> 0]
        /\ pc = "walkdir"
        /\ ext = 0
        /\ stack = << WalkFrame(dir) >>
        /\ deferredSymlinks = EmptyMap
        /\ applyStack = << >>
        /\ err = ""
        /\ log = << >>
        /\ prior = [run |-> 1, tree |-> EmptyMap]

\* A slip: ErrSkip from fn on the directory is returned like any error.
IsSkipNever(e) == FALSE

\* errors.Is(err, ErrSkip), walkdir.go:23.
IsSkip(e) == e = "skip"

\* A slip: the loop does not look at what a call returned.
PropagatesNever(e) == FALSE

\* err != nil && !errors.Is(err, ErrSkip), walkdir.go:35 and 40.
Propagates(e) == e # "" /\ e # "skip"

\* The top call returns e.
WalkReturns(e, events) ==
    /\ pc' = "return"
    /\ err' = e
    /\ log' = log \o events
    /\ UNCHANGED stack

\* The top call goes on in frame fr.
WalkGoesOn(fr, events) ==
    /\ stack' = SetTop(stack, fr)
    /\ log' = log \o events
    /\ UNCHANGED << pc, err >>

Fn(path, result) == Ev("fn", path, result, "", 0)

Failure(path, cause) == Ev("fail", path, cause, "", 0)

\* walkdir.go:18-27: Stat, then fn on dir itself.
WalkDirEnter ==
    /\ pc = "walkdir"
    /\ Top(stack).stage = "enter"
    /\ \E io \in BOOLEAN, r \in FnResults, dir \in { Top(stack).dir } :
         IF io \/ ~os_Stat(fs, dir).ok
         THEN WalkReturns("stat", << Failure(dir, "stat") >>)
         ELSE IF r # ""
         THEN WalkReturns(IF IsSkip(r) THEN "" ELSE r, << Fn(dir, r) >>)
         ELSE WalkGoesOn([Top(stack) EXCEPT !.stage = "list"],
                         << Fn(dir, r) >>)
    /\ UNCHANGED << fs, args, prior, umask, opts, ext, deferredSymlinks, applyStack >>

\* walkdir.go:28-31: the listing of dir.
WalkDirList ==
    /\ pc = "walkdir"
    /\ Top(stack).stage = "list"
    /\ \E io \in BOOLEAN, rd \in { os_ReadDir(fs, Top(stack).dir) } :
         IF io \/ ~rd.ok
         THEN WalkReturns("readdir",
                          << Failure(Top(stack).dir, "readdir") >>)
         ELSE WalkGoesOn([Top(stack) EXCEPT !.stage = "loop",
                                            !.names = rd.names, !.i = 1],
                         << >>)
    /\ UNCHANGED << fs, args, prior, umask, opts, ext, deferredSymlinks, applyStack >>

\* One pass of the loop at walkdir.go:32-43 up to the call it makes: the
\* recursive call for a directory, fn for anything else.
WalkDirEntry ==
    /\ pc = "walkdir"
    /\ Top(stack).stage = "loop"
    /\ Top(stack).i <= Len(Top(stack).names)
    /\ \E path \in { filepath_Join(Top(stack).dir,
                                   Top(stack).names[Top(stack).i]) } :
         IF os_Lstat(fs, path).node.kind = "dir"
         THEN /\ stack' = Append(SetTop(stack, [Top(stack) EXCEPT
                                                  !.stage = "called"]),
                                 WalkFrame(path))
              /\ UNCHANGED << pc, err, log >>
         ELSE \E r \in FnResults :
                IF Propagates(r)
                THEN WalkReturns(r, << Fn(path, r) >>)
                ELSE WalkGoesOn([Top(stack) EXCEPT !.i = @ + 1],
                                << Fn(path, r) >>)
    /\ UNCHANGED << fs, args, prior, umask, opts, ext, deferredSymlinks, applyStack >>

\* walkdir.go:45: the loop is over and the call returns nil.
WalkDirEnd ==
    /\ pc = "walkdir"
    /\ Top(stack).stage = "loop"
    /\ Top(stack).i > Len(Top(stack).names)
    /\ WalkReturns("", << >>)
    /\ UNCHANGED << fs, args, prior, umask, opts, ext, deferredSymlinks, applyStack >>

\* The top call returns err: to the caller of WalkDir, or to the call that
\* made it at walkdir.go:34, which returns it too or goes on with its loop
\* (35-37).
WalkDirReturn ==
    /\ pc = "return"
    /\ IF Len(stack) = 1
       THEN /\ stack' = << >>
            /\ pc' = IF err = "" THEN "done" ELSE "failed"
            /\ UNCHANGED err
       ELSE IF Propagates(err)
       THEN /\ stack' = SubSeq(stack, 1, Len(stack) - 1)
            /\ UNCHANGED << pc, err >>
       ELSE /\ stack' = SetTop(SubSeq(stack, 1, Len(stack) - 1),
                               [stack[Len(stack) - 1] EXCEPT
                                  !.stage = "loop", !.i = @ + 1])
            /\ pc' = "walkdir"
            /\ err' = ""
    /\ UNCHANGED << fs, args, prior, umask, opts, ext, deferredSymlinks, applyStack,
                    log >>

WalkDirNext ==
    \/ WalkDirEnter
    \/ WalkDirList
    \/ WalkDirEntry
    \/ WalkDirEnd
    \/ WalkDirReturn

WalkDirSpec == WalkDirInit /\ [][WalkDirNext]_vars

(***************************************************************************)
(* Scaffold called twice with the same source, context and options, the    *)
(* second time into another empty destination.  The options are the same   *)
(* in both calls: the plugins return nil and leave the configuration as it *)
(* is, and the operating system fails nothing; what is left to vary is the *)
(* order the two maps are ranged over.                                     *)
(***************************************************************************)
OtherRoot == << "/", "u" >>

\* The tree below root, its paths taken relative to root.
DestTree(f, root) ==
    [q \in { SubSeq(p, Len(root) + 1, Len(p)) :
               p \in { x \in DOMAIN f : Len(x) > Len(root)
                                         /\ SubSeq(x, 1, Len(root)) = root } }
       |-> f[root \o q]]

\* A step of a call in which no plugin and no system call fails and the
\* configuration stays as the options made it.
SameOptions == Next /\ pc' # "failed" /\ opts' = opts

\* Scaffold returned nil; it is called again, into OtherRoot.
Again ==
    /\ pc = "done"
    /\ prior.run = 1
    /\ prior' = [run |-> 2,
                 tree |-> DestTree(fs, Resolve(fs, args.destination, TRUE))]
    /\ args' = [args EXCEPT !.destination = OtherRoot]
    /\ opts' = [opts EXCEPT !.target = OtherRoot]
    /\ pc' = "extend"
    /\ ext' = 0
    /\ log' = << >>
    /\ UNCHANGED << fs, umask, stack, deferredSymlinks, applyStack, err >>

NextTwice == SameOptions \/ Again

SpecTwice == Init /\ [][NextTwice]_vars

(***************************************************************************)
(* What the history shows.                                                 *)
(***************************************************************************)
\* The path the link text at path p names.
NamedBy(p, text) == filepath_Clean(filepath_Join(filepath_Dir(p), text))

\* The contexts that come from c: c itself and the fields of it that a
\* template hands to dir.
ComesFrom(c) == { c, CtxField(c, "A"), CtxField(c, "B") }

\* log[v] is the rendering of an entry's name; log[v - 1] is its visit.
IsNameRender(v) == log[v].op = "render" /\ log[v].data = "name"

\* The evaluation of the name rendered at v, as scaffold made it.
NameEval(v) ==
    evaluate(filepath_Base(log[v].path), log[v].ctx,
             [f \in { "dir" } |-> "capture"])

\* The calls of scaffoldEntry made for the name rendered at v.
EntriesOf(v) ==
    { j \in DOMAIN log :
        /\ j > v
        /\ log[j].op = "entry"
        /\ log[j].path = log[v].path
        /\ \A w \in (v + 1)..(j - 1) :
              ~(IsNameRender(w) /\ log[w].path = log[v].path) }

\* The links in the destination.
LinksIn(f) ==
    { p \in DOMAIN f :
        /\ Len(p) > Len(DestRoot)
        /\ SubSeq(p, 1, Len(DestRoot)) = DestRoot
        /\ f[p].kind = "link" }

\* C1: the resolution of the deferred symlinks terminates, cycles
\* included: applySymlinks is never entered for a path whose resolution is
\* still under way, and the recursion does not exhaust the stack.
C1_RecursionStops ==
    /\ pc # "overflow"
    /\ \A i, j \in DOMAIN applyStack :
          i # j => applyStack[i].path # applyStack[j].path

\* C2: a deferred symlink whose target is a path the run never produced is
\* an error: no link is ever created whose target path does not exist.
C2_MissingTargetIsError ==
    \A i \in DOMAIN log :
        log[i].op = "symlink" =>
            NamedBy(log[i].path, log[i].data) \in DOMAIN fs

\* C3: every name, content and target is rendered against the context the
\* configuration holds once the Extend calls are over (or against one of
\* the sub-contexts a template took from it), also when an Extend replaced
\* it.
C3_ReplacedContextUsed ==
    \A i \in DOMAIN log :
        log[i].op = "render" => log[i].ctx \in ComesFrom(opts.Context)

\* C4: an entry that is kept and whose name calls dir not once is
\* materialized exactly once, at the directory's destination joined with
\* the rendered name, against the context of its directory, whatever its
\* content or target template holds.
C4_ZeroCallsOnce ==
    \A v \in DOMAIN log :
        (/\ IsNameRender(v)
         /\ NameEval(v).ok
         /\ NameEval(v).calls = << >>
         /\ NameEval(v).out # << >>)
        => /\ \A j \in EntriesOf(v) :
                 /\ log[j].data =
                        TrimSuffix(filepath_Join(log[v - 1].data,
                                                 NameEval(v).out),
                                   TmplSuffix)
                 /\ log[j].ctx = log[v].ctx
           /\ Cardinality(EntriesOf(v)) <= 1
           /\ pc = "done" => Cardinality(EntriesOf(v)) = 1

\* C5: an entry whose name calls dir k > 0 times is materialized k times,
\* once for each call, at the directory's destination joined with the name
\* the call was given and against the context the call was given; never
\* against another context.
C5_FanOut ==
    \A v \in DOMAIN log :
        (/\ IsNameRender(v)
         /\ NameEval(v).ok
         /\ NameEval(v).calls # << >>)
        => /\ \A j \in EntriesOf(v) :
                 \E c \in DOMAIN NameEval(v).calls :
                     /\ log[j].data = filepath_Join(log[v - 1].data,
                                                    NameEval(v).calls[c][1])
                     /\ log[j].ctx = NameEval(v).calls[c][2]
           /\ Cardinality(EntriesOf(v)) <= Len(NameEval(v).calls)
           /\ pc = "done" =>
                 Cardinality(EntriesOf(v)) = Len(NameEval(v).calls)

\* C6: when Scaffold returns nil the deferred map is empty and every
\* record the walk made is a symlink in the destination, whose text is the
\* recorded text as it is, not the path it resolves to.
C6_RecordsBecomeLinks ==
    pc = "done" =>
        /\ DOMAIN deferredSymlinks = {}
        /\ \A i \in DOMAIN log :
              log[i].op = "record" =>
                  /\ log[i].path \in DOMAIN fs
                  /\ fs[log[i].path].kind = "link"
                  /\ fs[log[i].path].data = log[i].data

\* C7: chains are created from the leaf outward: when the link at p is
\* created and its text names another recorded path t, the link at t has
\* been created before, whichever of the two the walk recorded first and
\* whichever the loop over the map produced first.
C7_LeafOutward ==
    \A i \in DOMAIN log :
        (/\ log[i].op = "symlink"
         /\ NamedBy(log[i].path, log[i].data) # log[i].path
         /\ \E r \in DOMAIN log :
               /\ log[r].op = "record"
               /\ log[r].path = NamedBy(log[i].path, log[i].data))
        => \E j \in 1..(i - 1) :
               /\ log[j].op = "symlink"
               /\ log[j].path = NamedBy(log[i].path, log[i].data)

\* The link at p was created after the link at t its text names, though
\* the walk recorded p before t.
C7_Witness ==
    \E i \in DOMAIN log :
        /\ log[i].op = "symlink"
        /\ \E j \in 1..(i - 1) :
              /\ log[j].op = "symlink"
              /\ log[j].path = NamedBy(log[i].path, log[i].data)
              /\ \E rp \in DOMAIN log :
                    /\ log[rp].op = "record"
                    /\ log[rp].path = log[i].path
                    /\ \E rt \in (rp + 1)..Len(log) :
                          /\ log[rt].op = "record"
                          /\ log[rt].path = log[j].path

\* C8: an error is the last thing that happens: Scaffold returns it, no
\* call of scaffold stays active and no entry is visited after it; when it
\* came from the walk, the deferred symlinks are never applied and the
\* destination holds no symlink.
C8_ErrorAborts ==
    \A i \in DOMAIN log :
        log[i].op = "error" =>
            /\ i = Len(log)
            /\ pc = "failed"
            /\ err = log[i].data
            /\ stack = << >>
            /\ log[i].data \notin { "extend", "remove", "symlink" } =>
                  /\ applyStack = << >>
                  /\ \A j \in DOMAIN log : log[j].op # "symlink"
                  /\ LinksIn(fs) = {}

\* An AfterEach failed in the walk after a symlink had been recorded.
C8_Witness ==
    /\ pc = "failed"
    /\ err = "after"
    /\ DOMAIN deferredSymlinks # {}
    /\ \E i \in DOMAIN log : log[i].op = "write"

\* C9: Extend is called once for each plugin in registration order, and
\* nothing else happens before the last of them returned; when one returns
\* an error no later plugin is called, the destination is not written, not
\* even its root, and Scaffold returns the error.
C9_ExtendFirst ==
    /\ ext <= opts.plugins
    /\ Len(log) >= ext
    /\ \A i \in DOMAIN log :
          (log[i].op = "extend") <=> (i <= ext)
    /\ \A i \in 1..ext : log[i].n = i
    /\ (\E i \in DOMAIN log : log[i].op \notin { "extend", "error" })
          => ext = opts.plugins
    /\ pc \in { "walk", "links", "done" } => ext = opts.plugins
    /\ err = "extend" =>
          /\ pc = "failed"
          /\ \A p \in DOMAIN fs : p = Root \/ SubSeq(p, 1, 2) = SourceRoot
          /\ Len(log) = ext + 1

\* The first of two plugins returned nil from Extend and the second an
\* error.
C9_Witness ==
    /\ pc = "failed"
    /\ err = "extend"
    /\ opts.plugins = MaxPlugins
    /\ ext = MaxPlugins

\* The calls of AfterEach of plugin k with the path p.
AfterCalls(p, k) ==
    { j \in DOMAIN log : log[j].op = "after" /\ log[j].path = p /\ log[j].n = k }

\* C10: in a run without error, for every directory and every file made in
\* the destination each plugin's AfterEach is called exactly once with its
\* destination path, the plugins in registration order; and AfterEach is
\* never called with the destination path of a symlink.
C10_AfterEachOnce ==
    pc = "done" =>
        /\ \A i \in DOMAIN log :
              log[i].op \in { "mkdirall", "write" } =>
                  \A k \in 1..opts.plugins :
                      Cardinality(AfterCalls(log[i].path, k)) = 1
        /\ \A i, j \in DOMAIN log :
              (/\ log[i].op = "after"
               /\ log[j].op = "after"
               /\ log[i].path = log[j].path
               /\ i < j)
              => log[i].n < log[j].n
        /\ \A j, r \in DOMAIN log :
              (log[j].op = "after" /\ log[r].op = "record")
              => log[j].path # log[r].path

\* C11: a configured exclusion pattern that does not compile makes
\* Scaffold return an error, whatever the source tree holds and wherever
\* the pattern stands in the list: Scaffold never returns nil with such a
\* pattern configured.
C11_InvalidPatternIsError ==
    pc = "done" => \A i \in DOMAIN opts.Exclude : RegexValid(opts.Exclude[i])

\* The source paths from the entry at p up to the root entry above it.
SelfAndAncestors(p) ==
    { SubSeq(p, 1, k) : k \in { n \in (Len(SourceRoot) + 2)..Len(p) :
                                  n = Len(p) \/ p[n + 1] = "/" } }

\* Whether a configured pattern matches the source path q, taken relative
\* to the source root.
ExcludedPath(q) ==
    \E i \in DOMAIN opts.Exclude :
        /\ RegexValid(opts.Exclude[i])
        /\ RegexMatch(opts.Exclude[i], filepath_Rel(opts.source, q).path)

\* The call of scaffoldEntry that the output at log[j] belongs to.
EntryFor(j) ==
    CHOOSE e \in 1..j :
        /\ log[e].op = "entry"
        /\ \A w \in (e + 1)..j : log[w].op # "entry"

\* C12: an entry whose source path, relative to the source root and as it
\* is in the source, matches a configured pattern is never handed to
\* scaffoldEntry and none of its descendants is: nothing is rendered,
\* created, written or recorded for them.
C12_ExcludedProduceNothing ==
    /\ \A j \in DOMAIN log :
          log[j].op \in { "entry", "render" } =>
              \A q \in SelfAndAncestors(log[j].path) : ~ExcludedPath(q)
    /\ \A j \in DOMAIN log :
          log[j].op \in { "mkdirall", "write", "record" } =>
              /\ \E e \in 1..j : log[e].op = "entry"
              /\ log[EntryFor(j)].data = log[j].path

\* Scaffold returned nil after it met an excluded directory that has
\* entries below it, and an entry that is kept.
C12_Witness ==
    /\ pc = "done"
    /\ \E v, j \in DOMAIN log :
          /\ log[v].op = "visit"
          /\ ExcludedPath(log[v].path)
          /\ Children(fs, log[v].path) # {}
          /\ log[j].op = "write"

\* Whether the source path q is the path p or below it.
AtOrBelow(q, p) ==
    /\ Len(q) >= Len(p)
    /\ SubSeq(q, 1, Len(p)) = p
    /\ Len(q) > Len(p) => q[Len(p) + 1] = "/"

\* The steps after the name rendering at v and before the same source
\* entry is met again (below another instance of a fan-out directory).
AfterRender(v) ==
    { j \in DOMAIN log :
        /\ j > v
        /\ \A w \in (v + 1)..j :
              ~(IsNameRender(w) /\ log[w].path = log[v].path) }

\* C13: an entry whose name renders to the empty text is left out of the
\* destination with all that is below it: scaffoldEntry is not called for
\* it, so nothing is created, written, notified or recorded for it, and
\* no entry below it is visited or rendered.
C13_EmptyNameOmitted ==
    \A v \in DOMAIN log :
        (/\ IsNameRender(v)
         /\ NameEval(v).ok
         /\ NameEval(v).out = << >>)
        => /\ \A j \in AfterRender(v) :
                 log[j].op \in { "entry", "visit", "render" } =>
                     ~AtOrBelow(log[j].path, log[v].path)
           /\ v < Len(log) =>
                 log[v + 1].op \notin { "entry", "mkdirall", "write",
                                        "after", "record" }

\* Scaffold returned nil after it met a directory whose name rendered to
\* the empty text and that has an entry below it.
C13_Witness ==
    /\ pc = "done"
    /\ opts.plugins > 0
    /\ \E v \in DOMAIN log :
          /\ IsNameRender(v)
          /\ NameEval(v).ok
          /\ NameEval(v).out = << >>
          /\ Children(fs, log[v].path) # {}

\* C14: the suffix ".tmpl" is stripped from the destination name of every
\* entry that is materialized, fan-out instances included: scaffoldEntry
\* is never called with a destination path that ends in ".tmpl".
C14_SuffixStripped ==
    \A j \in DOMAIN log :
        log[j].op = "entry" => ~HasSuffix(log[j].data, TmplSuffix)

\* The steps that write a destination path: a directory is created, a
\* file is written, a symlink is created.
WriteOps == { "mkdir", "mkdirall", "write", "symlink" }

\* C15: no destination path is written twice in a run, also when two
\* source entries render to the same destination name.
C15_WrittenOnce ==
    \A i, j \in DOMAIN log :
        (/\ i < j
         /\ log[i].op \in WriteOps
         /\ log[j].op \in WriteOps)
        => log[i].path # log[j].path

\* C16: two calls of Scaffold with the same source, context and options
\* into two empty destinations leave the same tree (paths, kinds, modes,
\* contents and link texts), in whatever order the fan-out map and the
\* deferred symlink map are ranged over.
C16_SameTree ==
    (prior.run = 2 /\ pc = "done")
        => DestTree(fs, args.destination) = prior.tree

(***************************************************************************)
(* WalkDir.                                                                *)
(***************************************************************************)
\* The directories between the walked directory and p, the first included
\* and p not.
WalkAncestors(p) ==
    { SubSeq(p, 1, k) : k \in { n \in Len(args.dir)..(Len(p) - 1) :
                                  /\ SubSeq(p, 1, Len(args.dir)) = args.dir
                                  /\ p[n + 1] = "/" } }

FnOn(i, p) == log[i].op = "fn" /\ log[i].path = p

\* What makes a walk fail: an error of fn that is not ErrSkip, a failed
\* Stat, a failed ReadDir.
WalkErrors == { "error", "stat", "readdir" }

\* C17: fn is called on a directory before it is called on anything below
\* it; below a directory fn returned ErrSkip on, fn is never called;
\* ErrSkip is not an error of the walk; and a walk that returned nil has
\* called fn on everything whose directories up to the walked one fn
\* returned nil on, so the entries after a skipped one are visited.
C17_PreOrderAndSkip ==
    /\ \A j \in DOMAIN log : log[j].op = "fn" =>
         \A q \in WalkAncestors(log[j].path) :
            \E i \in 1..(j - 1) : FnOn(i, q)
    /\ \A i \in DOMAIN log : (log[i].op = "fn" /\ log[i].data = "skip") =>
         \A j \in DOMAIN log : log[i].path \notin WalkAncestors(log[j].path)
    /\ pc = "failed" =>
         \E i \in DOMAIN log : log[i].data \in WalkErrors
    /\ pc = "done" =>
         \A p \in DOMAIN fs :
            ( /\ p = args.dir \/ WalkAncestors(p) # {}
              /\ \A q \in WalkAncestors(p) :
                    \E i \in DOMAIN log : FnOn(i, q) /\ log[i].data = "" )
            => \E i \in DOMAIN log : FnOn(i, p)

\* A walk that returned nil after fn returned ErrSkip on the directory d/b,
\* which has a file in it, and on the file d/f, and was then called on h.
C17_Witness ==
    /\ pc = "done"
    /\ SourceRoot \o << "/", "d", "/", "b", "/", "a" >> \in DOMAIN fs
    /\ \E i \in DOMAIN log :
         /\ FnOn(i, SourceRoot \o << "/", "d", "/", "b" >>)
         /\ log[i].data = "skip"
         /\ \E j \in (i + 1)..Len(log) :
              /\ FnOn(j, SourceRoot \o << "/", "d", "/", "f" >>)
              /\ log[j].data = "skip"
              /\ \E k \in (j + 1)..Len(log) :
                   FnOn(k, SourceRoot \o << "/", "h" >>)

\* C18: after fn returned an error other than ErrSkip, or Stat or ReadDir
\* failed, fn is not called again, and WalkDir returns that error.
C18_WalkAborts ==
    /\ \A i \in DOMAIN log : log[i].data \in WalkErrors => i = Len(log)
    /\ ( /\ pc \in { "done", "failed" }
         /\ log # << >>
         /\ log[Len(log)].data \in WalkErrors )
       => (pc = "failed" /\ err = log[Len(log)].data)

\* fn returned an error on the file d/b/a, two calls deep; WalkDir returned
\* it and d/f, which comes after d/b, was not visited.  And a ReadDir that
\* failed two calls deep.
C18_Witness ==
    /\ pc = "failed"
    /\ \/ /\ err = "error"
          /\ FnOn(Len(log), SourceRoot \o << "/", "d", "/", "b", "/", "a" >>)
          /\ SourceRoot \o << "/", "d", "/", "f" >> \in DOMAIN fs
          /\ \A i \in DOMAIN log :
                ~FnOn(i, SourceRoot \o << "/", "d", "/", "f" >>)
       \/ /\ err = "readdir"
          /\ log[Len(log)].path = SourceRoot \o << "/", "d", "/", "b" >>

\* The regular file the write at step j left is still the node at its path.
StillThere(j) ==
    /\ log[j].path \in DOMAIN fs
    /\ fs[log[j].path].kind = "file"
    /\ \A k \in (j + 1)..Len(log) :
          log[k].op \in WriteOps => log[k].path # log[j].path

\* C19: every directory in the destination, the destination itself
\* included, has mode 0700, and every regular file the run wrote has the
\* mode of the source file it was written from.
C19_Modes ==
    /\ \A p \in DOMAIN fs :
          (AtOrBelow(p, DestRoot) /\ fs[p].kind = "dir")
             => fs[p].mode = DirMode
    /\ \A j \in DOMAIN log :
          (log[j].op = "write" /\ StillThere(j))
             => fs[log[j].path].mode = fs[log[EntryFor(j)].path].mode

\* The target of the source link at srcPath as evaluate renders it.
RenderedTarget(srcPath, ctx) ==
    evaluate(fs[srcPath].data, ctx, [f \in { "dir" } |-> "capture"])

\* The rendering of an absolute target for a link whose destination path
\* is relative: no path leads from the one to the other.
NoRelativePath(j) ==
    /\ log[j].op = "render"
    /\ log[j].data = "target"
    /\ RenderedTarget(log[j].path, log[j].ctx).ok
    /\ filepath_IsAbs(RenderedTarget(log[j].path, log[j].ctx).out)
    /\ ~filepath_IsAbs(filepath_Dir(log[EntryFor(j)].data))

\* C20: no target in the deferred symlink map is absolute; a recorded
\* target is the rendered one when that is relative, and otherwise the
\* clean relative path that leads from the directory of the link's
\* destination path to the rendered target; when there is no such path the
\* run fails there and records nothing for the link.
C20_RelativeTargets ==
    /\ \A p \in DOMAIN deferredSymlinks :
          ~filepath_IsAbs(deferredSymlinks[p])
    /\ \A j \in DOMAIN log : log[j].op = "record" =>
          \E t \in { RenderedTarget(log[EntryFor(j)].path, log[j].ctx).out } :
             /\ ~filepath_IsAbs(log[j].data)
             /\ IF filepath_IsAbs(t)
                THEN /\ filepath_Clean(log[j].data) = log[j].data
                     /\ filepath_Join(filepath_Dir(log[j].path), log[j].data)
                           = filepath_Clean(t)
                ELSE log[j].data = t
    /\ \A j \in DOMAIN log : NoRelativePath(j) =>
          /\ pc = "failed"
          /\ err = "rel"
          /\ j + 1 = Len(log)
          /\ log[j + 1].op = "error"

\* A run that returned nil and made the link c, whose target /t/a in the
\* source was recorded as a.
C20_Witness ==
    /\ pc = "done"
    /\ \E j \in DOMAIN log :
          /\ log[j].op = "record"
          /\ log[j].path = DestRoot \o << "/", "c" >>
          /\ log[j].data = << "a" >>
          /\ filepath_IsAbs(RenderedTarget(log[EntryFor(j)].path,
                                           log[j].ctx).out)
    /\ DestRoot \o << "/", "c" >> \in DOMAIN fs
    /\ fs[DestRoot \o << "/", "c" >>].kind = "link"
    /\ fs[DestRoot \o << "/", "c" >>].data = << "a" >>

\* What the write logged at step j made: a directory, a file, a link.
KindWritten(j) ==
    CASE log[j].op = "write" -> "file"
      [] log[j].op = "symlink" -> "link"
      [] OTHER -> "dir"

\* Step j is the last that wrote at its path.
LastWriteAt(j) ==
    /\ log[j].op \in WriteOps
    /\ \A k \in (j + 1)..Len(log) :
          log[k].op \in WriteOps => log[k].path # log[j].path

\* C21: when the run has failed, whatever it wrote is in the destination
\* as it was last written: the directories, the files with their content,
\* the links with their text.
C21_NoRollback ==
    pc = "failed" =>
       \A j \in DOMAIN log : LastWriteAt(j) =>
          \E r \in { Resolve(fs, log[j].path, FALSE) } :
             /\ r \in DOMAIN fs
             /\ fs[r].kind = KindWritten(j)
             /\ fs[r].data = log[j].data

\* The javascript extension is among the plugins whose Extend returned.
ScriptExtended == \E e \in DOMAIN log : log[e].op = "extend" /\ log[e].data = "script"

ScriptSource == SourceRoot \o << "/" >> \o ScriptPath

\* A configured pattern other than the extension's own matches rel.
OtherwiseExcluded(rel) ==
    \E i \in DOMAIN opts.Exclude :
        /\ opts.Exclude[i] # ExtensionPattern(ScriptPath)
        /\ RegexValid(opts.Exclude[i])
        /\ RegexMatch(opts.Exclude[i], rel)

\* C22: once the javascript extension for the script a is in, the root
\* entry a is never handed to scaffoldEntry, whatever else is excluded; its
\* Extend does not fail when there is no script to read; and in a run that
\* returned nil a root file a.tmpl that nothing else excludes was written
\* to the destination as a.
C22_ScriptLeftOut ==
    /\ ScriptExtended =>
          \A j \in DOMAIN log : log[j].op = "entry" => log[j].path # ScriptSource
    /\ \A e \in DOMAIN log :
          ( /\ log[e].op = "extend"
            /\ log[e].data = "script"
            /\ ScriptSource \notin DOMAIN fs )
          => ~(e < Len(log) /\ log[e + 1].op = "error"
                            /\ log[e + 1].data = "extend")
    /\ ( /\ ScriptExtended
         /\ pc = "done"
         /\ ScriptSource \o TmplSuffix \in DOMAIN fs
         /\ fs[ScriptSource \o TmplSuffix].kind = "file"
         /\ ~OtherwiseExcluded(ScriptPath \o TmplSuffix) )
       => \E j \in DOMAIN log :
             /\ log[j].op = "write"
             /\ log[j].path = filepath_Join(args.destination, ScriptPath)
             /\ log[EntryFor(j)].path = ScriptSource \o TmplSuffix

\* A run with the extension that returned nil on a tree with both a and
\* a.tmpl: a was met and left out, a.tmpl was written as a.
C22_Witness ==
    /\ ScriptExtended
    /\ pc = "done"
    /\ ScriptSource \in DOMAIN fs
    /\ \E v \in DOMAIN log : log[v].op = "visit" /\ log[v].path = ScriptSource
    /\ \E j \in DOMAIN log :
          /\ log[j].op = "write"
          /\ log[j].path = DestRoot \o << "/" >> \o ScriptPath
          /\ log[EntryFor(j)].path = ScriptSource \o TmplSuffix
    /\ fs[DestRoot \o << "/" >> \o ScriptPath].data
          = fs[ScriptSource \o TmplSuffix].data

\* The names the dir actions in the text give to dir.
DirNames(text) ==
    { DirArgName(text[i]) : i \in { n \in DOMAIN text : text[n] \in DirActions } }

\* The names dir can be called with while the source entry at srcPath is
\* rendered: those in its name and in its content or target.
CallsIn(srcPath) ==
    DirNames(filepath_Base(srcPath)) \cup DirNames(fs[srcPath].data)

\* C23: no step other than a call of Extend changes the configuration, and
\* the pairs an active scaffold holds were all recorded while it rendered
\* the entry it is at.
C23_ConfigReadOnly ==
    [][ /\ ext' = ext => opts' = opts
        /\ \A f \in DOMAIN stack' :
              stack'[f].subDirs # EmptyMap =>
                 DOMAIN stack'[f].subDirs \subseteq CallsIn(stack'[f].srcPath)
      ]_vars

\* scaffold is at an entry whose name does not call dir and holds no pair,
\* after a fan-out entry of the same directory was materialized.
C23_Witness ==
    /\ pc = "walk"
    /\ stack # << >>
    /\ Top(stack).stage = "single"
    /\ Top(stack).subDirs = EmptyMap
    /\ opts.Funcs["dir"] = "placeholder"
    /\ \E j \in DOMAIN log :
          /\ log[j].op = "entry"
          /\ log[j].ctx \in { "cA", "cB" }
          /\ log[j].path # Top(stack).srcPath
          /\ filepath_Dir(log[j].path) = Top(stack).srcDir

\* C24: an AfterEach call for a path comes after the directory or the file
\* was made at that path, and before anything is made or notified below
\* that path.
C24_NotifiedBeforeContents ==
    \A j \in DOMAIN log : log[j].op = "after" =>
       /\ \E i \in 1..(j - 1) :
             log[i].op \in { "mkdirall", "write" } /\ log[i].path = log[j].path
       /\ \A i \in 1..(j - 1) :
             log[i].op \in WriteOps \cup { "after" } =>
                ~(AtOrBelow(log[i].path, log[j].path)
                  /\ log[i].path # log[j].path)

\* A dir action is in the text.
CallsDir(text) == \E i \in DOMAIN text : text[i] \in DirActions

\* C25: no rendering calls a dir other than the capturing one: the
\* placeholder is never called (no rendering fails on its panic) and a dir
\* the caller or an extension put in the function table is never called.
C25_OnlyCapturingDir ==
    /\ \A j \in DOMAIN log : log[j].op \notin { "user", "placeholder" }
    /\ \A f \in DOMAIN stack :
          stack[f].stage \in { "single", "range" } =>
             stack[f].funcs["dir"] = "capture"

\* A run that returned nil with a dir of the caller's or of the script's in
\* the function table, in which a name and a content that call dir were
\* rendered.
C25_Witness ==
    /\ pc = "done"
    /\ opts.Funcs["dir"] = "user"
    /\ \E i, j \in DOMAIN log :
          /\ log[i].op = "render" /\ log[i].data = "name"
          /\ CallsDir(filepath_Base(log[i].path))
          /\ log[j].op = "render" /\ log[j].data = "content"
          /\ CallsDir(fs[log[j].path].data)

\* C26: every directory, file and symlink a run makes or writes is at or
\* below the destination root, whatever the names render to.
C26_InsideDestination ==
    \A j \in DOMAIN log :
        log[j].op \in WriteOps => AtOrBelow(log[j].path, args.destination)

\* C27: the command-line tool scaffolds into its Dest argument and only
\* reads its Template argument: the destination of the run is Dest and
\* nothing is made or written at or below Template.
C27_TemplateOnlyRead ==
    /\ args.destination = cli.Dest
    /\ \A j \in DOMAIN log :
          log[j].op \in WriteOps => ~AtOrBelow(log[j].path, cli.Template)

====
